---- MODULE Spec2Model ----
(***************************************************************************)
(* Model of scripts/generate-plugin-docs.py: the documentation generator   *)
(* that reads .claude-plugin/marketplace.json, fetches plugin.json and     *)
(* repository info for every plugin, merges the three sources, renders one *)
(* markdown page per plugin plus an index page, and validates the pages.   *)
(*                                                                         *)
(* Python values are modelled as follows.                                  *)
(*   - a str is a TLA+ string; a dict is a function from keys to values;   *)
(*   - a JSON value whose type the code inspects (None, str, list, dict,   *)
(*     int) is a record [kind, val]; NONE is Python's None / JSON null;    *)
(*   - an exception that leaves a function is the "raised" field of the    *)
(*     function's result.                                                  *)
(***************************************************************************)
EXTENDS Integers, Sequences, FiniteSets, TLC

(***************************************************************************)
(* Bounds of the model.                                                    *)
(***************************************************************************)
MaxPlugins == 2
MaxCalls == 2

(***************************************************************************)
(* Python values.                                                          *)
(***************************************************************************)
NONE == [kind |-> "none", val |-> "None"]
PyStr(s) == [kind |-> "str", val |-> s]
PyList(q) == [kind |-> "list", val |-> q]
PyDict(f) == [kind |-> "dict", val |-> f]
PyInt(n) == [kind |-> "int", val |-> n]

EmptyDict == [k \in {} |-> NONE]

\* bool(v): None, "", [], {} and 0 are falsy.
Truthy(v) ==
    CASE v.kind = "none" -> FALSE
      [] v.kind = "str" -> v.val # ""
      [] v.kind = "list" -> Len(v.val) > 0
      [] v.kind = "dict" -> DOMAIN v.val # {}
      [] v.kind = "int" -> v.val # 0

\* d.get(k, default)
Get(d, k, default) == IF k \in DOMAIN d THEN d[k] ELSE default

\* d[k] = v
Put(d, k, v) == [x \in DOMAIN d \cup {k} |-> IF x = k THEN v ELSE d[x]]

\* {**a, **b}
Union(a, b) == [x \in DOMAIN a \cup DOMAIN b |-> IF x \in DOMAIN b THEN b[x] ELSE a[x]]

(***************************************************************************)
(* Strings.                                                                *)
(***************************************************************************)
\* sub in s
Contains(s, sub) ==
    \E i \in 1..(Len(s) - Len(sub) + 1) : SubSeq(s, i, i + Len(sub) - 1) = sub

\* s.startswith(p)
StartsWith(s, p) == Len(s) >= Len(p) /\ SubSeq(s, 1, Len(p)) = p

LowerChar(c) ==
    CASE c = "A" -> "a" [] c = "B" -> "b" [] c = "C" -> "c" [] c = "D" -> "d"
      [] c = "E" -> "e" [] c = "F" -> "f" [] c = "G" -> "g" [] c = "H" -> "h"
      [] c = "I" -> "i" [] c = "J" -> "j" [] c = "K" -> "k" [] c = "L" -> "l"
      [] c = "M" -> "m" [] c = "N" -> "n" [] c = "O" -> "o" [] c = "P" -> "p"
      [] c = "Q" -> "q" [] c = "R" -> "r" [] c = "S" -> "s" [] c = "T" -> "t"
      [] c = "U" -> "u" [] c = "V" -> "v" [] c = "W" -> "w" [] c = "X" -> "x"
      [] c = "Y" -> "y" [] c = "Z" -> "z" [] OTHER -> c

UpperChar(c) ==
    CASE c = "a" -> "A" [] c = "b" -> "B" [] c = "c" -> "C" [] c = "d" -> "D"
      [] c = "e" -> "E" [] c = "f" -> "F" [] c = "g" -> "G" [] c = "h" -> "H"
      [] c = "i" -> "I" [] c = "j" -> "J" [] c = "k" -> "K" [] c = "l" -> "L"
      [] c = "m" -> "M" [] c = "n" -> "N" [] c = "o" -> "O" [] c = "p" -> "P"
      [] c = "q" -> "Q" [] c = "r" -> "R" [] c = "s" -> "S" [] c = "t" -> "T"
      [] c = "u" -> "U" [] c = "v" -> "V" [] c = "w" -> "W" [] c = "x" -> "X"
      [] c = "y" -> "Y" [] c = "z" -> "Z" [] OTHER -> c

RECURSIVE Lower(_)
\* s.lower()
Lower(s) == IF s = "" THEN "" ELSE LowerChar(SubSeq(s, 1, 1)) \o Lower(Tail(s))

RECURSIVE Join(_, _)
\* sep.join(lines)
Join(sep, lines) ==
    IF Len(lines) = 0 THEN ""
    ELSE IF Len(lines) = 1 THEN lines[1]
    ELSE lines[1] \o sep \o Join(sep, Tail(lines))

(***************************************************************************)
(* Configuration.                                                          *)
(***************************************************************************)
GITHUB_RAW_BASE == "https://raw.githubusercontent.com"
GITHUB_API_BASE == "https://api.github.com/repos"
DOCS_OUTPUT_DIR == "docs/plugins"

(***************************************************************************)
(* The network.  A response is what urlopen, read, decode and json.loads   *)
(* make of one request: the parsed body, or the exception raised.          *)
(***************************************************************************)
Ok(body) == [kind |-> "ok", code |-> 200, body |-> body]
HttpError(code) == [kind |-> "HTTPError", code |-> code, body |-> NONE]
Failure(exc) == [kind |-> exc, code |-> 0, body |-> NONE]

\* Manifests a repository may serve (plugin.json).
ManifestBodies ==
    { NONE,
      PyDict(EmptyDict),
      PyDict([version |-> PyStr("2.0"), author |-> PyStr("B")]) }

\* Payloads the repository API may serve.
RepoInfoBodies ==
    { NONE,
      PyDict(EmptyDict),
      PyDict([stargazers_count |-> PyInt(7), updated_at |-> PyStr("2024-05-01"),
            topics |-> PyList(<<"f5">>), default_branch |-> PyStr("develop")]),
      PyDict([stargazers_count |-> PyInt(3), archived |-> PyStr("no")]) }

\* The exceptions of a request: those fetch_json_from_url names, and
\* UnicodeDecodeError, which response.read().decode("utf-8") raises on a
\* body that is not UTF-8.
Failures ==
    { HttpError(404), HttpError(500), Failure("URLError"),
      Failure("JSONDecodeError"), Failure("TimeoutError"),
      Failure("UnicodeDecodeError") }

Responses(bodies) == Failures \cup { Ok(b) : b \in bodies }

(***************************************************************************)
(* validate_url_scheme, fetch_json_from_url                                *)
(***************************************************************************)
validate_url_scheme_http(url) == StartsWith(url, "http")

validate_url_scheme(url) == StartsWith(url, "https://")

\* The result of a call: whether a request went out, the exception that left
\* the function ("" when it returned), and the value returned.
Returned(requested, value) == [requested |-> requested, raised |-> "", value |-> value]
Raised(exc) == [requested |-> TRUE, raised |-> exc, value |-> NONE]

fetch_json_from_url(url, resp) ==
    IF ~validate_url_scheme(url) THEN Returned(FALSE, NONE)
    ELSE CASE resp.kind = "ok" -> Returned(TRUE, resp.body)
           [] resp.kind = "HTTPError" -> Returned(TRUE, NONE)
           [] resp.kind = "URLError" -> Returned(TRUE, NONE)
           [] resp.kind = "JSONDecodeError" -> Returned(TRUE, NONE)
           [] resp.kind = "TimeoutError" -> Returned(TRUE, NONE)
           [] OTHER -> Raised(resp.kind)

\* paths of fetch_plugin_json
paths(repo) ==
    << GITHUB_RAW_BASE \o "/" \o repo \o "/main/.claude-plugin/plugin.json",
       GITHUB_RAW_BASE \o "/" \o repo \o "/master/.claude-plugin/plugin.json",
       GITHUB_RAW_BASE \o "/" \o repo \o "/main/plugin.json",
       GITHUB_RAW_BASE \o "/" \o repo \o "/master/plugin.json" >>

repo_info_url(repo) == GITHUB_API_BASE \o "/" \o repo

(***************************************************************************)
(* _merge_author_info, _apply_plugin_json_fields, _apply_repo_info,        *)
(* merge_metadata                                                          *)
(***************************************************************************)
_merge_author_info_existing_wins(existing, new_author) ==
    LET coerced == IF new_author.kind = "str"
                   THEN PyDict([name |-> new_author])
                   ELSE new_author
    IN  IF existing.kind = "dict"
        THEN PyDict(Union(coerced.val, existing.val))
        ELSE coerced

_merge_author_info(existing, new_author) ==
    LET coerced == IF new_author.kind = "str"
                   THEN PyDict([name |-> new_author])
                   ELSE new_author
    IN  IF existing.kind = "dict"
        THEN PyDict(Union(existing.val, coerced.val))
        ELSE coerced

OverridableFields == <<"version", "description", "license", "keywords", "homepage">>
ComponentFields == <<"commands", "agents", "skills", "hooks", "mcpServers">>

RECURSIVE ApplyOverridablePresent(_, _, _)
ApplyOverridablePresent(merged, plugin_json, fields) ==
    IF Len(fields) = 0 THEN merged
    ELSE ApplyOverridablePresent(IF Head(fields) \in DOMAIN plugin_json
                                 THEN Put(merged, Head(fields), plugin_json[Head(fields)])
                                 ELSE merged,
                                 plugin_json, Tail(fields))

RECURSIVE ApplyOverridable(_, _, _)
\* for field in (...): if value := plugin_json.get(field): merged[field] = value
ApplyOverridable(merged, plugin_json, fields) ==
    IF Len(fields) = 0 THEN merged
    ELSE LET value == Get(plugin_json, Head(fields), NONE)
         IN  ApplyOverridable(IF Truthy(value) THEN Put(merged, Head(fields), value)
                              ELSE merged,
                              plugin_json, Tail(fields))

\* if author_data := plugin_json.get("author"): merged["author"] = ...
ApplyAuthor(merged, plugin_json) ==
    LET author_data == Get(plugin_json, "author", NONE)
    IN  IF Truthy(author_data)
        THEN Put(merged, "author",
                 _merge_author_info(Get(merged, "author", NONE), author_data))
        ELSE merged

RECURSIVE ApplyComponents(_, _, _)
\* for component in (...): if component in plugin_json: merged[component] = ...
ApplyComponents(merged, plugin_json, fields) ==
    IF Len(fields) = 0 THEN merged
    ELSE ApplyComponents(IF Head(fields) \in DOMAIN plugin_json
                         THEN Put(merged, Head(fields), plugin_json[Head(fields)])
                         ELSE merged,
                         plugin_json, Tail(fields))

_apply_plugin_json_fields(merged, plugin_json) ==
    ApplyComponents(
        ApplyAuthor(ApplyOverridable(merged, plugin_json, OverridableFields),
                    plugin_json),
        plugin_json, ComponentFields)

_apply_repo_info_no_defaults(merged, repo_info) ==
    LET m1 == IF "stargazers_count" \in DOMAIN repo_info
              THEN Put(merged, "stars", repo_info["stargazers_count"]) ELSE merged
        m2 == IF "updated_at" \in DOMAIN repo_info
              THEN Put(m1, "updated_at", repo_info["updated_at"]) ELSE m1
        m3 == IF "topics" \in DOMAIN repo_info
              THEN Put(m2, "topics", repo_info["topics"]) ELSE m2
    IN  IF "default_branch" \in DOMAIN repo_info
        THEN Put(m3, "default_branch", repo_info["default_branch"]) ELSE m3

_apply_repo_info(merged, repo_info) ==
    LET m1 == Put(merged, "stars", Get(repo_info, "stargazers_count", PyInt(0)))
        m2 == Put(m1, "updated_at", Get(repo_info, "updated_at", PyStr("")))
        m3 == Put(m2, "topics", Get(repo_info, "topics", PyList(<<>>)))
    IN  Put(m3, "default_branch", Get(repo_info, "default_branch", PyStr("main")))

\* if plugin_json: ...
WithPluginJson(merged, plugin_json) ==
    IF Truthy(plugin_json) THEN _apply_plugin_json_fields(merged, plugin_json.val)
    ELSE merged

\* if repo_info: ...
WithRepoInfo(merged, repo_info) ==
    IF Truthy(repo_info) THEN _apply_repo_info(merged, repo_info.val)
    ELSE merged

merge_metadata(marketplace_entry, plugin_json, repo_info) ==
    WithRepoInfo(WithPluginJson(marketplace_entry, plugin_json), repo_info)

(***************************************************************************)
(* Rendering.  An f-string field is the str() of its value.                *)
(***************************************************************************)
\* The backquote character of the markdown templates.  SANY's lexer rejects a
\* backquote inside a string, so the apostrophe, which no template uses,
\* stands for it.
BACKQUOTE == "'"
FENCE == BACKQUOTE \o BACKQUOTE \o BACKQUOTE

Fmt(v) == IF v.kind = "none" THEN "None" ELSE v.val

\* The strings sorted() is applied to, in ascending order.
SortOrder == <<"alpha", "api", "automation", "cloud", "f5", "security", "waf">>

InSeq(x, q) == \E i \in 1..Len(q) : q[i] = x

\* sorted(set(q)) for strings of SortOrder
SortedSet(q) == SelectSeq(SortOrder, LAMBDA x : InSeq(x, q))

_extract_author_info(plugin) ==
    LET author == Get(plugin, "author", PyDict(EmptyDict))
    IN  IF author.kind = "dict"
        THEN << Fmt(Get(author.val, "name", PyStr("Unknown"))),
                Fmt(Get(author.val, "url", PyStr(""))) >>
        ELSE << IF Truthy(author) THEN Fmt(author) ELSE "Unknown", "" >>

component_map ==
    << <<"commands", ":material-console: Commands">>,
       <<"skills", ":material-puzzle: Skills">>,
       <<"agents", ":material-robot: Agents">>,
       <<"mcpServers", ":material-server: MCP Servers">> >>

_build_component_badges(plugin) ==
    LET present == SelectSeq(component_map, LAMBDA kv : kv[1] \in DOMAIN plugin)
    IN  [i \in 1..Len(present) |-> present[i][2]]

CommandRow(cmd) == "| " \o BACKQUOTE \o cmd \o BACKQUOTE \o " | See documentation |"

_build_commands_section(plugin) ==
    IF "commands" \notin DOMAIN plugin THEN <<>>
    ELSE LET commands == plugin["commands"]
         IN  <<"## Available Commands", "">>
             \o (IF commands.kind = "list" /\ Len(commands.val) > 0
                 THEN <<"| Command | Description |", "|---------|-------------|">>
                      \o [i \in 1..Len(commands.val) |-> CommandRow(commands.val[i])]
                 ELSE <<"See plugin documentation for available commands.">>)
             \o <<"">>

_build_links_section_when_any(repo_url, author_name, author_url) ==
    IF repo_url = "" /\ author_url = "" /\ author_name \in {"", "Unknown"}
    THEN <<>>
    ELSE <<"## Links", "">>
         \o (IF repo_url # ""
             THEN <<"- :material-github: [Source Repository](" \o repo_url \o ")">>
             ELSE <<>>)
         \o (IF author_url # ""
             THEN <<"- :material-account: [Author: " \o author_name \o "](" \o author_url \o ")">>
             ELSE <<"- :material-account: Author: " \o author_name>>)

_build_links_section(repo_url, author_name, author_url) ==
    <<"## Links", "">>
    \o (IF repo_url # ""
        THEN <<"- :material-github: [Source Repository](" \o repo_url \o ")">>
        ELSE <<>>)
    \o (IF author_url # ""
        THEN <<"- :material-account: [Author: " \o author_name \o "](" \o author_url \o ")">>
        ELSE IF author_name # "" /\ author_name # "Unknown"
        THEN <<"- :material-account: Author: " \o author_name>>
        ELSE <<>>)

\* source.get("repo", "") if isinstance(source, dict) else ""
RepoOf(plugin) ==
    LET source == Get(plugin, "source", PyDict(EmptyDict))
    IN  IF source.kind = "dict" THEN Fmt(Get(source.val, "repo", PyStr(""))) ELSE ""

is_browser_plugin_case_sensitive(name, description) ==
    Contains(name, "chrome") \/ Contains(description, "browser")

\* "chrome" in name.lower() or "browser" in description.lower()
is_browser_plugin(name, description) ==
    Contains(Lower(name), "chrome") \/ Contains(Lower(description), "browser")

RequirementsSection(name, description) ==
    <<"## Requirements", "", "- Claude Code installed and configured">>
    \o (IF is_browser_plugin(name, description)
        THEN <<"- Claude in Chrome browser extension">>
        ELSE <<>>)
    \o <<"", "">>

TagSpan(tag) == BACKQUOTE \o tag \o BACKQUOTE

generate_plugin_page_lines(plugin, timestamp) ==
    LET name == Fmt(Get(plugin, "name", PyStr("Unknown Plugin")))
        description == Fmt(Get(plugin, "description", PyStr("No description available.")))
        version == Fmt(Get(plugin, "version", PyStr("N/A")))
        license_type == Fmt(Get(plugin, "license", PyStr("MIT")))
        category == Fmt(Get(plugin, "category", PyStr("automation")))
        repo == RepoOf(plugin)
        repo_url == IF repo # "" THEN "https://github.com/" \o repo ELSE ""
        author == _extract_author_info(plugin)
        all_tags == SortedSet(Get(plugin, "tags", PyList(<<>>)).val
                              \o Get(plugin, "keywords", PyList(<<>>)).val)
        component_badges == _build_component_badges(plugin)
    IN  << "---",
           "title: " \o name,
           "description: " \o description,
           "---",
           "",
           "![Version](https://img.shields.io/badge/version-" \o version \o "-blue)",
           "![License](https://img.shields.io/badge/license-" \o license_type \o "-green)",
           "![Category](https://img.shields.io/badge/category-" \o category \o "-orange)",
           "",
           "> " \o description,
           "" >>
        \o (IF Len(component_badges) > 0
            THEN <<"## Components", "", Join(" | ", component_badges), "">>
            ELSE <<>>)
        \o << "## Installation", "", "**From Marketplace:**", "", FENCE \o "bash",
              "/plugin install " \o name, FENCE, "", "**Direct from GitHub:**", "",
              FENCE \o "bash", "/plugin install " \o repo, FENCE, "" >>
        \o _build_commands_section(plugin)
        \o RequirementsSection(name, description)
        \o (IF Len(all_tags) > 0
            THEN <<"## Tags", "", Join(" ", [i \in 1..Len(all_tags) |-> TagSpan(all_tags[i])]), "">>
            ELSE <<>>)
        \o _build_links_section(repo_url, author[1], author[2])
        \o <<"", "---", "", "*Last generated: " \o timestamp \o "*">>

generate_plugin_page(plugin, timestamp) ==
    Join("\n", generate_plugin_page_lines(plugin, timestamp))

(***************************************************************************)
(* generate_index_page                                                     *)
(***************************************************************************)
IsLetter(c) == LowerChar(c) # c \/ UpperChar(c) # c

RECURSIVE TitleFrom(_, _)
\* s.title(): the first letter of every run of letters in upper case, the
\* others in lower case
TitleFrom(s, inWord) ==
    IF s = "" THEN ""
    ELSE LET c == SubSeq(s, 1, 1)
         IN  (IF inWord THEN LowerChar(c) ELSE UpperChar(c))
             \o TitleFrom(Tail(s), IsLetter(c))

Title(s) == TitleFrom(s, FALSE)

\* description[: limit - 3] + "..." when len(description) > limit
Truncate(description, limit) ==
    IF Len(description) > limit
    THEN SubSeq(description, 1, limit - 3) \o "..."
    ELSE description

max_desc_len == 60
max_cat_desc_len == 80

IndexRow(plugin) ==
    LET name == Fmt(Get(plugin, "name", PyStr("unknown")))
        version == Fmt(Get(plugin, "version", PyStr("N/A")))
        category == Fmt(Get(plugin, "category", PyStr("automation")))
        description == Truncate(Fmt(Get(plugin, "description", PyStr("No description"))),
                                max_desc_len)
    IN  "| [" \o name \o "](" \o name \o ".md) | " \o version \o " | "
        \o category \o " | " \o description \o " |"

CategoryOf(plugin) == Fmt(Get(plugin, "category", PyStr("automation")))

CategoryItem(plugin) ==
    LET plugin_name == Fmt(Get(plugin, "name", PyStr("unknown")))
        plugin_desc == Truncate(Fmt(Get(plugin, "description", PyStr("No description"))),
                                max_cat_desc_len)
    IN  "- [" \o plugin_name \o "](" \o plugin_name \o ".md) - " \o plugin_desc

\* One group of sorted(categories.items())
CategorySection(plugins, category) ==
    <<"### " \o Title(category), "">>
    \o (LET cat_plugins == SelectSeq(plugins, LAMBDA p : CategoryOf(p) = category)
        IN  [i \in 1..Len(cat_plugins) |-> CategoryItem(cat_plugins[i])])
    \o <<"">>

RECURSIVE CategorySections(_, _)
CategorySections(plugins, categories) ==
    IF Len(categories) = 0 THEN <<>>
    ELSE CategorySection(plugins, Head(categories))
         \o CategorySections(plugins, Tail(categories))

generate_index_page(plugins, marketplace, timestamp) ==
    LET marketplace_version == Fmt(Get(marketplace, "version", PyStr("1.0.0")))
    IN  Join("\n",
          << "---",
             "title: Plugin Overview",
             "description: All available plugins in the F5 Distributed Cloud marketplace",
             "---",
             "",
             "Marketplace Version: " \o BACKQUOTE \o marketplace_version \o BACKQUOTE,
             "",
             "This page lists all plugins available in the F5 Distributed Cloud marketplace.",
             "",
             "## Available Plugins",
             "",
             "| Plugin | Version | Category | Description |",
             "|--------|---------|----------|-------------|" >>
          \o [i \in 1..Len(plugins) |-> IndexRow(plugins[i])]
          \o << "",
                "## Quick Install",
                "",
                FENCE \o "bash",
                "# Add this marketplace",
                "/plugin marketplace add robinmordasiewicz/f5-distributed-cloud-marketplace",
                "",
                "# Install any plugin",
                "/plugin install <plugin-name>",
                FENCE,
                "",
                "## Plugin Categories",
                "" >>
          \o CategorySections(plugins, SortedSet([i \in 1..Len(plugins) |-> CategoryOf(plugins[i])]))
          \o <<"---", "", "*Last generated: " \o timestamp \o "*">>)

(***************************************************************************)
(* validate_generated_markdown                                             *)
(***************************************************************************)
required_sections == <<"## Installation", "## Links">>

MissingSection(content, section) ==
    IF ~Contains(content, section)
    THEN <<"Missing required section: " \o section>>
    ELSE <<>>

MissingBadge(content) ==
    IF ~Contains(content, "![Version]") THEN <<"Missing version badge">> ELSE <<>>

MissingFrontmatter(content) ==
    IF ~StartsWith(content, "---") THEN <<"Missing YAML frontmatter">> ELSE <<>>

validate_generated_markdown_first_error(content) ==
    IF ~Contains(content, required_sections[1])
    THEN MissingSection(content, required_sections[1])
    ELSE IF ~Contains(content, required_sections[2])
    THEN MissingSection(content, required_sections[2])
    ELSE IF ~Contains(content, "![Version]")
    THEN MissingBadge(content)
    ELSE MissingFrontmatter(content)

validate_generated_markdown(content) ==
    MissingSection(content, required_sections[1])
    \o MissingSection(content, required_sections[2])
    \o MissingBadge(content)
    \o MissingFrontmatter(content)

(***************************************************************************)
(* The run: main().                                                        *)
(*                                                                         *)
(*   marketplace_file  the file .claude-plugin/marketplace.json            *)
(*   pc                the position of main                                *)
(*   idx, plugin       the for loop over plugins_data: index and entry     *)
(*   cand              the position of fetch_plugin_json's loop over paths *)
(*   calls             fetch_json_from_url's calls within the current      *)
(*                     fetch_plugin_json or fetch_repo_info                *)
(*   plugin_json, repo_info, merged, plugin_content, errors                *)
(*                     the locals of the loop body                         *)
(*   processed_plugins, validation_errors   the two accumulating lists     *)
(*   files             docs/plugins: path -> content                       *)
(*   writes            history: the paths written, in order                *)
(*   trace             history: the steps taken, as <<entry index, step>>; *)
(*                     a call of fetch_plugin_json is one step             *)
(*   exit_code         the process exit status, -1 while running           *)
(***************************************************************************)
VARIABLES marketplace_file, pc, idx, plugin, cand, calls, plugin_json, repo_info,
          merged, plugin_content, errors, processed_plugins, validation_errors,
          files, writes, trace, exit_code

vars == << marketplace_file, pc, idx, plugin, cand, calls, plugin_json, repo_info,
           merged, plugin_content, errors, processed_plugins, validation_errors,
           files, writes, trace, exit_code >>

\* datetime.now(tz=UTC).strftime("%Y-%m-%d %H:%M:%S UTC")
Timestamps == {"2024-06-01 12:00:00 UTC"}

\* marketplace.get("plugins", [])
plugins_data == Get(marketplace_file.data, "plugins", <<>>)

\* plugin.get("name", "unknown")
NameOf(entry) == Fmt(Get(entry, "name", PyStr("unknown")))

PluginFileByCategory(entry) ==
    DOCS_OUTPUT_DIR \o "/" \o Fmt(Get(entry, "category", PyStr("automation"))) \o ".md"

\* DOCS_OUTPUT_DIR / f"{name}.md"
PluginFile(entry) == DOCS_OUTPUT_DIR \o "/" \o NameOf(entry) \o ".md"

IndexFile == DOCS_OUTPUT_DIR \o "/index.md"

\* One call of fetch_json_from_url: its argument, whether a request went out,
\* whether the response had a body json.loads parsed, that body, the
\* exception that left the call, and the value returned.
Call(url, resp, r) ==
    [url |-> url, requested |-> r.requested,
     parsed |-> r.requested /\ resp.kind = "ok",
     body |-> IF r.requested THEN resp.body ELSE NONE,
     raised |-> r.raised, value |-> r.value]

Step(i, name) == <<i, name>>

\* load_marketplace and the two early returns of main
LoadMarketplace ==
    /\ pc = "start"
    /\ trace' = Append(trace, Step(0, "load"))
    /\ IF marketplace_file.state \in {"missing", "invalid"}
       THEN /\ pc' = "done"
            /\ exit_code' = 1
       ELSE IF Len(plugins_data) = 0
       THEN /\ pc' = "done"
            /\ exit_code' = 0
       ELSE /\ pc' = "loop"
            /\ exit_code' = exit_code
    /\ UNCHANGED << marketplace_file, idx, plugin, cand, calls, plugin_json, repo_info,
                    merged, plugin_content, errors, processed_plugins,
                    validation_errors, files, writes >>

\* the head of the loop body: name, source, repo, and the two locals reset
NextPlugin ==
    /\ pc = "loop"
    /\ idx <= Len(plugins_data)
    /\ plugin' = plugins_data[idx]
    /\ plugin_json' = NONE
    /\ repo_info' = NONE
    /\ calls' = <<>>
    /\ cand' = 1
    /\ pc' = IF RepoOf(plugins_data[idx]) # "" THEN "fetch_plugin_json" ELSE "merge"
    /\ UNCHANGED << marketplace_file, idx, merged, plugin_content, errors,
                    processed_plugins, validation_errors, files, writes,
                    trace, exit_code >>

\* if result is not None
FoundTruthy(result) == Truthy(result)

Found(result) == result # NONE

\* An exception nobody catches ends the process with a traceback and status 1.
Crash ==
    /\ pc' = "crashed"
    /\ exit_code' = 1

\* one iteration of fetch_plugin_json's loop, and its return
FetchPluginJson ==
    /\ pc = "fetch_plugin_json"
    /\ \E resp \in Responses(ManifestBodies) :
         LET url == paths(RepoOf(plugin))[cand]
             r == fetch_json_from_url(url, resp)
         IN  /\ calls' = Append(calls, Call(url, resp, r))
             /\ trace' = IF cand = 1
                         THEN Append(trace, Step(idx, "fetch_plugin_json"))
                         ELSE trace
             /\ IF r.raised # ""
                THEN Crash /\ UNCHANGED << cand, plugin_json >>
                ELSE IF Found(r.value)
                THEN /\ plugin_json' = r.value
                     /\ pc' = "fetch_repo_info"
                     /\ UNCHANGED << cand, exit_code >>
                ELSE IF cand = Len(paths(RepoOf(plugin)))
                THEN /\ plugin_json' = NONE
                     /\ pc' = "fetch_repo_info"
                     /\ UNCHANGED << cand, exit_code >>
                ELSE /\ cand' = cand + 1
                     /\ UNCHANGED << pc, plugin_json, exit_code >>
    /\ UNCHANGED << marketplace_file, idx, plugin, repo_info, merged, plugin_content,
                    errors, processed_plugins, validation_errors, files, writes >>

\* fetch_repo_info
FetchRepoInfo ==
    /\ pc = "fetch_repo_info"
    /\ \E resp \in Responses(RepoInfoBodies) :
         LET url == repo_info_url(RepoOf(plugin))
             r == fetch_json_from_url(url, resp)
         IN  /\ calls' = <<Call(url, resp, r)>>
             /\ trace' = Append(trace, Step(idx, "fetch_repo_info"))
             /\ IF r.raised # ""
                THEN Crash /\ UNCHANGED repo_info
                ELSE /\ repo_info' = r.value
                     /\ pc' = "merge"
                     /\ UNCHANGED exit_code
    /\ UNCHANGED << marketplace_file, idx, plugin, cand, plugin_json, merged,
                    plugin_content, errors, processed_plugins, validation_errors,
                    files, writes >>

\* merged = merge_metadata(...); processed_plugins.append(merged)
Merge ==
    /\ pc = "merge"
    /\ merged' = merge_metadata(plugin, plugin_json, repo_info)
    /\ processed_plugins' = Append(processed_plugins, merged')
    /\ calls' = <<>>
    /\ trace' = Append(trace, Step(idx, "merge"))
    /\ pc' = "render"
    /\ UNCHANGED << marketplace_file, idx, plugin, cand, plugin_json, repo_info,
                    plugin_content, errors, validation_errors, files, writes, exit_code >>

\* plugin_content = generate_plugin_page(merged)
Render ==
    /\ pc = "render"
    /\ \E timestamp \in Timestamps :
         plugin_content' = generate_plugin_page(merged, timestamp)
    /\ trace' = Append(trace, Step(idx, "render"))
    /\ pc' = "write"
    /\ UNCHANGED << marketplace_file, idx, plugin, cand, calls, plugin_json, repo_info,
                    merged, errors, processed_plugins, validation_errors, files,
                    writes, exit_code >>

WriteSkippingValidate ==
    /\ pc = "write"
    /\ files' = Put(files, PluginFile(plugin), plugin_content)
    /\ writes' = Append(writes, PluginFile(plugin))
    /\ trace' = Append(trace, Step(idx, "write"))
    /\ idx' = idx + 1
    /\ pc' = "loop"
    /\ UNCHANGED << marketplace_file, plugin, cand, calls, plugin_json, repo_info,
                    merged, plugin_content, errors, processed_plugins,
                    validation_errors, exit_code >>

\* plugin_file.write_text(plugin_content)
Write ==
    /\ pc = "write"
    /\ files' = Put(files, PluginFile(plugin), plugin_content)
    /\ writes' = Append(writes, PluginFile(plugin))
    /\ trace' = Append(trace, Step(idx, "write"))
    /\ pc' = "validate"
    /\ UNCHANGED << marketplace_file, idx, plugin, cand, calls, plugin_json, repo_info,
                    merged, plugin_content, errors, processed_plugins,
                    validation_errors, exit_code >>

Prefixed(name, q) == [i \in 1..Len(q) |-> name \o ": " \o q[i]]

\* errors = validate_generated_markdown(plugin_file), and the end of the body
Validate ==
    /\ pc = "validate"
    /\ errors' = validate_generated_markdown(files[PluginFile(plugin)])
    /\ validation_errors' = validation_errors \o Prefixed(NameOf(plugin), errors')
    /\ trace' = Append(trace, Step(idx, "validate"))
    /\ idx' = idx + 1
    /\ pc' = "loop"
    /\ UNCHANGED << marketplace_file, plugin, cand, calls, plugin_json, repo_info,
                    merged, plugin_content, processed_plugins, files, writes, exit_code >>

\* after the loop: the index page, the report, return 0
GenerateIndex ==
    /\ pc = "loop"
    /\ idx > Len(plugins_data)
    /\ \E timestamp \in Timestamps :
         files' = Put(files, IndexFile,
                      generate_index_page(processed_plugins, marketplace_file.data,
                                          timestamp))
    /\ writes' = Append(writes, IndexFile)
    /\ trace' = Append(trace, Step(idx, "index"))
    /\ pc' = "done"
    /\ exit_code' = 0
    /\ UNCHANGED << marketplace_file, idx, plugin, cand, calls, plugin_json, repo_info,
                    merged, plugin_content, errors, processed_plugins,
                    validation_errors >>

(***************************************************************************)
(* The runs checked: the marketplace file is missing, is not JSON, or      *)
(* holds up to MaxPlugins entries drawn from CatalogEntries.               *)
(***************************************************************************)
EntryAlpha ==
    [ name |-> PyStr("alpha"),
      description |-> PyStr("F5 API tools"),
      version |-> PyStr("1.0"),
      author |-> PyDict([name |-> PyStr("A"), url |-> PyStr("https://a.example")]),
      category |-> PyStr("security"),
      keywords |-> PyList(<<"f5">>),
      source |-> PyDict([source |-> PyStr("github"), repo |-> PyStr("o/alpha")]) ]

\* An entry named like the index page, with a local source (no repo).
EntryIndex ==
    [ name |-> PyStr("index"),
      description |-> PyStr("Cloud browser"),
      author |-> PyStr("C"),
      tags |-> PyList(<<"cloud", "api">>),
      source |-> PyStr("./plugins/index") ]

\* An entry without a name.
EntryNameless ==
    [ version |-> PyStr("0.1"),
      category |-> PyStr("security"),
      source |-> PyDict([repo |-> PyStr("o/n")]) ]

CatalogEntries == {EntryAlpha, EntryIndex, EntryNameless}

SeqsUpTo(S, n) == UNION { [1..k -> S] : k \in 0..n }

MarketplaceFiles ==
    { [state |-> "missing", data |-> EmptyDict],
      [state |-> "invalid", data |-> EmptyDict],
      [state |-> "ok", data |-> [name |-> PyStr("f5xc"), version |-> PyStr("1.2.0")]] }
    \cup { [state |-> "ok", data |-> [version |-> PyStr("1.2.0"), plugins |-> q]] :
             q \in SeqsUpTo(CatalogEntries, MaxPlugins) }

\* The locals before their first assignment.
Idle ==
    /\ idx = 1
    /\ plugin = EmptyDict
    /\ cand = 1
    /\ calls = <<>>
    /\ plugin_json = NONE
    /\ repo_info = NONE
    /\ merged = EmptyDict
    /\ plugin_content = ""
    /\ errors = <<>>
    /\ processed_plugins = <<>>
    /\ validation_errors = <<>>
    /\ files = EmptyDict
    /\ writes = <<>>
    /\ trace = <<>>
    /\ exit_code = -1

Init ==
    /\ marketplace_file \in MarketplaceFiles
    /\ pc = "start"
    /\ Idle

Next ==
    \/ LoadMarketplace
    \/ NextPlugin
    \/ FetchPluginJson
    \/ FetchRepoInfo
    \/ Merge
    \/ Render
    \/ Write
    \/ Validate
    \/ GenerateIndex

Spec == Init /\ [][Next]_vars

(***************************************************************************)
(* fetch_json_from_url on its own: up to MaxCalls calls, each with a URL   *)
(* of Urls and any response.                                               *)
(***************************************************************************)
Urls ==
    { "https://api.github.com/repos/o/alpha",
      "https://raw.githubusercontent.com/o/alpha/main/plugin.json",
      "https://",
      "http://api.github.com/repos/o/alpha",
      "HTTPS://api.github.com/repos/o/alpha",
      "https:/api.github.com",
      " https://api.github.com",
      "ftp://api.github.com/repos",
      "file:///etc/hosts",
      "" }

FetchJsonFromUrl ==
    /\ pc = "fetch_json_from_url"
    /\ Len(calls) < MaxCalls
    /\ \E url \in Urls, resp \in Responses(ManifestBodies \cup RepoInfoBodies) :
         LET r == fetch_json_from_url(url, resp)
         IN  /\ calls' = Append(calls, Call(url, resp, r))
             /\ IF r.raised # ""
                THEN Crash
                ELSE UNCHANGED << pc, exit_code >>
    /\ UNCHANGED << marketplace_file, idx, plugin, cand, plugin_json, repo_info, merged,
                    plugin_content, errors, processed_plugins, validation_errors,
                    files, writes, trace >>

InitFetch ==
    /\ marketplace_file = [state |-> "missing", data |-> EmptyDict]
    /\ pc = "fetch_json_from_url"
    /\ Idle

SpecFetch == InitFetch /\ [][FetchJsonFromUrl]_vars

(***************************************************************************)
(* C1                                                                      *)
(***************************************************************************)
\* The four candidate URLs of a repository, in the order of the claim.
C1_Candidates(repo) ==
    << "https://raw.githubusercontent.com/" \o repo \o "/main/.claude-plugin/plugin.json",
       "https://raw.githubusercontent.com/" \o repo \o "/master/.claude-plugin/plugin.json",
       "https://raw.githubusercontent.com/" \o repo \o "/main/plugin.json",
       "https://raw.githubusercontent.com/" \o repo \o "/master/plugin.json" >>

\* fetch_plugin_json is running, or has just returned with calls as its log.
C1_InCall == pc \in {"fetch_plugin_json", "fetch_repo_info"}

C1_InOrder ==
    /\ Len(calls) <= 4
    /\ \A i \in 1..Len(calls) :
         /\ calls[i].url = C1_Candidates(RepoOf(plugin))[i]
         /\ calls[i].requested

\* C1 (as amended): fetch_plugin_json attempts the four candidate URLs strictly
\* in the order main/.claude-plugin/plugin.json, master/.claude-plugin/plugin.json,
\* main/plugin.json, master/plugin.json; it returns the body of the first
\* candidate that answers with a parseable JSON body other than null, attempts
\* no later candidate after that success, and returns None only after all four
\* candidates have failed or answered null.
C1_FirstSuccessInOrder ==
    C1_InCall =>
      /\ C1_InOrder
      /\ \A i \in 1..(Len(calls) - 1) : calls[i].body = NONE
      /\ pc = "fetch_repo_info" =>
           /\ Len(calls) >= 1
           /\ plugin_json = calls[Len(calls)].body
           /\ plugin_json = NONE => Len(calls) = 4

\* C1 witness: the third candidate succeeds after a failed and a null one.
C1_Witness ==
    /\ pc = "fetch_repo_info"
    /\ Len(calls) = 3
    /\ ~calls[1].parsed
    /\ calls[2].parsed
    /\ plugin_json # NONE

\* C1 as stated: the first candidate with a parseable JSON body ends the
\* search and its body is returned.
C1_FirstParseableReturned ==
    C1_InCall =>
      /\ C1_InOrder
      /\ \A i \in 1..(Len(calls) - 1) : ~calls[i].parsed
      /\ pc = "fetch_repo_info" =>
           /\ Len(calls) >= 1
           /\ plugin_json = calls[Len(calls)].body
           /\ plugin_json = NONE => Len(calls) = 4

(***************************************************************************)
(* C2                                                                      *)
(***************************************************************************)
C2_IsHttps(url) == Len(url) >= 8 /\ SubSeq(url, 1, 8) = "https://"

\* C2: every call of fetch_json_from_url with a URL that does not start with
\* "https://" returns None without a network request, and a network request
\* goes out only for a URL that starts with "https://".
C2_NonHttpsNeverRequested ==
    \A i \in 1..Len(calls) :
      /\ ~C2_IsHttps(calls[i].url) =>
           /\ ~calls[i].requested
           /\ calls[i].raised = ""
           /\ calls[i].value = NONE
      /\ calls[i].requested => C2_IsHttps(calls[i].url)

\* C2 witness: a refused http:// URL followed by a requested https:// URL.
C2_Witness ==
    /\ Len(calls) = 2
    /\ calls[1].url = "http://api.github.com/repos/o/alpha"
    /\ ~calls[1].requested
    /\ calls[2].requested

(***************************************************************************)
(* merge_metadata on its own: one call, on an entry of MergeEntries, a     *)
(* manifest of MergeManifests and a payload of MergeInfos.                 *)
(***************************************************************************)
\* The dict of a set of <<key, value>> pairs with distinct keys.
MkDict(pairs) ==
    [k \in {p[1] : p \in pairs} |-> (CHOOSE p \in pairs : p[1] = k)[2]]

MergeEntries ==
    { [ name |-> PyStr("alpha"),
        version |-> PyStr("1.0"),
        description |-> PyStr("F5 API tools"),
        license |-> PyStr("MIT"),
        keywords |-> PyList(<<"f5">>),
        homepage |-> PyStr("https://alpha.example"),
        author |-> PyDict([name |-> PyStr("A"), url |-> PyStr("https://a.example")]),
        commands |-> PyList(<<"/old">>) ],
      [ name |-> PyStr("beta"),
        author |-> PyStr("A") ],
      [ name |-> PyStr("gamma"),
        version |-> PyStr("0.3"),
        keywords |-> PyList(<<>>),
        stars |-> PyInt(1) ] }

VersionOpts == { {}, {<<"version", PyStr("")>>}, {<<"version", PyStr("2.0")>>} }
DescriptionOpts ==
    { {}, {<<"description", NONE>>}, {<<"description", PyStr("Remote tools")>>} }
KeywordsOpts ==
    { {}, {<<"keywords", PyList(<<>>)>>}, {<<"keywords", PyList(<<"waf">>)>>} }
LicenseHomepageOpts ==
    { {},
      {<<"license", PyStr("")>>, <<"homepage", PyStr("https://remote.example")>>},
      {<<"license", PyStr("Apache-2.0")>>} }
AuthorOpts ==
    { {},
      {<<"author", PyStr("")>>},
      {<<"author", PyStr("B")>>},
      {<<"author", PyDict([name |-> PyStr("B")])>>},
      {<<"author", PyDict([url |-> PyStr("https://b.example"),
                          email |-> PyStr("b@b.example")])>>} }
ComponentOpts == { {}, {<<"commands", PyList(<<"/scan">>)>>} }

MergeManifests ==
    {NONE} \cup
    { PyDict(MkDict(v \cup d \cup k \cup l \cup a \cup c)) :
        v \in VersionOpts, d \in DescriptionOpts, k \in KeywordsOpts,
        l \in LicenseHomepageOpts, a \in AuthorOpts, c \in ComponentOpts }

MergeInfos ==
    { NONE, PyDict([stargazers_count |-> PyInt(7), topics |-> PyList(<<"f5">>)]) }

InitMerge ==
    /\ plugin \in MergeEntries
    /\ plugin_json \in MergeManifests
    /\ repo_info \in MergeInfos
    /\ marketplace_file = [state |-> "ok", data |-> [plugins |-> <<plugin>>]]
    /\ pc = "merge"
    /\ idx = 1
    /\ cand = 1
    /\ calls = <<>>
    /\ merged = EmptyDict
    /\ plugin_content = ""
    /\ errors = <<>>
    /\ processed_plugins = <<>>
    /\ validation_errors = <<>>
    /\ files = EmptyDict
    /\ writes = <<>>
    /\ trace = <<>>
    /\ exit_code = -1

SpecMerge == InitMerge /\ [][Merge]_vars

(***************************************************************************)
(* C3                                                                      *)
(***************************************************************************)
C3_Ended == pc \in {"done", "crashed"}

C3_Fatal == marketplace_file.state \in {"missing", "invalid"}

C3_AllWritten ==
    /\ Len(processed_plugins) = Len(plugins_data)
    /\ \A i \in 1..Len(plugins_data) : PluginFile(plugins_data[i]) \in DOMAIN files
    /\ IndexFile \in DOMAIN files

\* C3: the run's exit status is 1 exactly when the marketplace file is missing
\* or is not valid JSON and 0 in every other run; whatever the remote fetches
\* do, every entry is processed and written, the index is written and main
\* returns 0.
C3_ExitStatus ==
    C3_Ended =>
      /\ exit_code = 1 <=> C3_Fatal
      /\ ~C3_Fatal => exit_code = 0
      /\ (~C3_Fatal /\ Len(plugins_data) > 0) => C3_AllWritten

(***************************************************************************)
(* C4                                                                      *)
(***************************************************************************)
C4_Fields == {"version", "description", "license", "keywords", "homepage"}

C4_Falsy(v) ==
    \/ v.kind = "none"
    \/ v.kind = "str" /\ v.val = ""
    \/ v.kind = "list" /\ v.val = <<>>
    \/ v.kind = "dict" /\ DOMAIN v.val = {}
    \/ v.kind = "int" /\ v.val = 0

\* The manifest's value of a field: None without a manifest or without the field.
C4_Supplied(field) ==
    IF plugin_json.kind = "dict" /\ field \in DOMAIN plugin_json.val
    THEN plugin_json.val[field]
    ELSE NONE

\* C4: after merge_metadata(entry, manifest, info), every field of version,
\* description, license, keywords, homepage has the manifest's value when the
\* manifest supplies a truthy value for it, and otherwise the catalog entry's
\* value unchanged (absent if the entry lacks it).
C4_OverridableFields ==
    pc = "render" =>
      \A field \in C4_Fields :
        IF ~C4_Falsy(C4_Supplied(field))
        THEN field \in DOMAIN merged /\ merged[field] = C4_Supplied(field)
        ELSE /\ field \in DOMAIN merged <=> field \in DOMAIN plugin
             /\ field \in DOMAIN plugin => merged[field] = plugin[field]

\* C4 witness: a manifest whose version is truthy and whose license is falsy,
\* merged into an entry that has both.
C4_Witness ==
    /\ pc = "render"
    /\ C4_Supplied("version") = PyStr("2.0")
    /\ C4_Supplied("license") = PyStr("")
    /\ "license" \in DOMAIN plugin
    /\ merged["version"] = PyStr("2.0")
    /\ merged["license"] = PyStr("MIT")

(***************************************************************************)
(* C5                                                                      *)
(***************************************************************************)
\* A plain-string author as a record with the single key "name".
C5_Coerced(author) == IF author.kind = "str" THEN [name |-> author] ELSE author.val

C5_ManifestAuthor == C4_Supplied("author")

C5_CatalogAuthor == IF "author" \in DOMAIN plugin THEN plugin["author"] ELSE NONE

\* The key union of two records in which the second wins.
C5_IsUnion(result, old, new) ==
    /\ DOMAIN result = DOMAIN old \cup DOMAIN new
    /\ \A k \in DOMAIN new : result[k] = new[k]
    /\ \A k \in DOMAIN old \ DOMAIN new : result[k] = old[k]

C5_Applies == pc = "render" /\ ~C4_Falsy(C5_ManifestAuthor)

\* C5 (as amended): when the manifest supplies an author, a plain-string
\* manifest author is coerced to a record with the single key "name"; if the
\* catalog author is a record, the merged author is the shallow key union of
\* the two in which the manifest's keys win and no catalog key is lost; if the
\* catalog author is a plain string or absent, the merged author is the
\* manifest's (coerced) author alone.
C5_AuthorMerge ==
    C5_Applies =>
      /\ "author" \in DOMAIN merged
      /\ merged["author"].kind = "dict"
      /\ C5_IsUnion(merged["author"].val,
                    IF C5_CatalogAuthor.kind = "dict" THEN C5_CatalogAuthor.val
                    ELSE EmptyDict,
                    C5_Coerced(C5_ManifestAuthor))

\* C5 witness: catalog {name: A, url: u} with manifest "B" gives {name: B, url: u}.
C5_Witness ==
    /\ C5_Applies
    /\ C5_CatalogAuthor = PyDict([name |-> PyStr("A"), url |-> PyStr("https://a.example")])
    /\ C5_ManifestAuthor = PyStr("B")
    /\ merged["author"] = PyDict([name |-> PyStr("B"), url |-> PyStr("https://a.example")])

\* C5 as stated: a plain-string author on either side is coerced before the
\* union, so no key of the catalog author is lost.
C5_CoercedOnEitherSide ==
    C5_Applies =>
      /\ "author" \in DOMAIN merged
      /\ merged["author"].kind = "dict"
      /\ C5_IsUnion(merged["author"].val,
                    IF C5_CatalogAuthor.kind \in {"dict", "str"}
                    THEN C5_Coerced(C5_CatalogAuthor)
                    ELSE EmptyDict,
                    C5_Coerced(C5_ManifestAuthor))

(***************************************************************************)
(* C6                                                                      *)
(***************************************************************************)
C6_Fields == {"stars", "updated_at", "topics", "default_branch"}

\* The payload's value of a key, or the default.
C6_Value(key, default) ==
    IF key \in DOMAIN repo_info.val THEN repo_info.val[key] ELSE default

C6_FourFieldsSet ==
    /\ C6_Fields \subseteq DOMAIN merged
    /\ merged["stars"] = C6_Value("stargazers_count", PyInt(0))
    /\ merged["updated_at"] = C6_Value("updated_at", PyStr(""))
    /\ merged["topics"] = C6_Value("topics", PyList(<<>>))
    /\ merged["default_branch"] = C6_Value("default_branch", PyStr("main"))

C6_OthersAsCatalog ==
    /\ DOMAIN merged \ C6_Fields = DOMAIN plugin \ C6_Fields
    /\ \A k \in DOMAIN plugin \ C6_Fields : merged[k] = plugin[k]

\* C6 (as amended): whenever the repo-info fetch for an entry returns a
\* non-empty payload, the normalized record has stars, updated_at, topics and
\* default_branch set, each to the payload's value or to its default (0, "",
\* [], "main"); if in addition all four manifest candidates failed, every
\* other field of the record equals the raw catalog entry.
C6_RepoInfoApplied ==
    (pc = "render" /\ repo_info.kind = "dict" /\ DOMAIN repo_info.val # {}) =>
      /\ C6_FourFieldsSet
      /\ plugin_json = NONE => C6_OthersAsCatalog

\* C6 witness: a payload with only a star count, after four failed candidates.
C6_Witness ==
    /\ pc = "render"
    /\ plugin = EntryAlpha
    /\ plugin_json = NONE
    /\ repo_info.kind = "dict"
    /\ DOMAIN repo_info.val = {"stargazers_count", "archived"}
    /\ merged["stars"] = PyInt(3)
    /\ merged["default_branch"] = PyStr("main")
    /\ merged["name"] = PyStr("alpha")

\* C6 as stated: whenever the repo-info fetch returns a payload.
C6_AnyPayloadApplied ==
    (pc = "render" /\ repo_info # NONE) =>
      /\ C6_FourFieldsSet
      /\ plugin_json = NONE => C6_OthersAsCatalog

(***************************************************************************)
(* C7                                                                      *)
(***************************************************************************)
C7_Name(entry) == IF "name" \in DOMAIN entry THEN entry["name"].val ELSE "unknown"

C7_Page(entry) == "docs/plugins/" \o C7_Name(entry) \o ".md"

C7_Count(path) == Cardinality({i \in 1..Len(writes) : writes[i] = path})

\* The names of the catalog are pairwise distinct and none is "index".
C7_DistinctNames ==
    /\ \A i, j \in 1..Len(plugins_data) :
         i # j => C7_Name(plugins_data[i]) # C7_Name(plugins_data[j])
    /\ \A i \in 1..Len(plugins_data) : C7_Name(plugins_data[i]) # "index"

\* C7 (as amended): in every run whose catalog entries have pairwise distinct
\* names (a missing name counting as "unknown"), none of them "index", no
\* output path is written a second time, and when main returns 0 after a
\* non-empty catalog the page of every entry and docs/plugins/index.md have
\* each been written exactly once.
C7_WrittenOnce ==
    C7_DistinctNames =>
      /\ \A i, j \in 1..Len(writes) : i # j => writes[i] # writes[j]
      /\ (pc = "done" /\ exit_code = 0 /\ Len(plugins_data) > 0) =>
           /\ C7_Count("docs/plugins/index.md") = 1
           /\ \A i \in 1..Len(plugins_data) : C7_Count(C7_Page(plugins_data[i])) = 1

\* C7 witness: a finished run over two entries with distinct names.
C7_Witness ==
    /\ pc = "done"
    /\ C7_DistinctNames
    /\ Len(plugins_data) = 2
    /\ writes = <<"docs/plugins/alpha.md", "docs/plugins/unknown.md",
                  "docs/plugins/index.md">>

\* C7 as stated: no path is written a second time, for any list of entries.
C7_NoPathWrittenTwice ==
    \A i, j \in 1..Len(writes) : i # j => writes[i] # writes[j]

(***************************************************************************)
(* C8                                                                      *)
(***************************************************************************)
C8_Rank(step) ==
    CASE step = "fetch_plugin_json" -> 1
      [] step = "fetch_repo_info" -> 2
      [] step = "merge" -> 3
      [] step = "render" -> 4
      [] step = "write" -> 5
      [] step = "validate" -> 6
      [] OTHER -> 0

\* The positions of the trace that are steps of entries.
C8_EntrySteps == {k \in 1..Len(trace) : C8_Rank(trace[k][2]) > 0}

C8_Before(step, k) == \E j \in 1..(k - 1) : trace[j] = step

\* C8: entries are processed one at a time in catalog order; the steps of an
\* entry occur in the order manifest fetch, repo-info fetch, merge, render,
\* write, validate; no step of entry N+1 starts before the validate step of
\* entry N has completed; the index page is written only after every entry
\* has completed all its steps.
C8_Sequential ==
    /\ \A j, k \in C8_EntrySteps :
         j < k => \/ trace[j][1] < trace[k][1]
                  \/ trace[j][1] = trace[k][1]
                     /\ C8_Rank(trace[j][2]) < C8_Rank(trace[k][2])
    /\ \A k \in C8_EntrySteps :
         /\ trace[k][1] \in 1..Len(plugins_data)
         /\ trace[k][1] > 1 => C8_Before(<<trace[k][1] - 1, "validate">>, k)
         /\ trace[k][2] = "validate" =>
              /\ C8_Before(<<trace[k][1], "merge">>, k)
              /\ C8_Before(<<trace[k][1], "render">>, k)
              /\ C8_Before(<<trace[k][1], "write">>, k)
         /\ trace[k][2] = "fetch_repo_info" =>
              C8_Before(<<trace[k][1], "fetch_plugin_json">>, k)
    /\ \A k \in 1..Len(trace) :
         trace[k][2] = "index" =>
           /\ k = Len(trace)
           /\ \A n \in 1..Len(plugins_data) : C8_Before(<<n, "validate">>, k)

\* C8 witness: the second entry has been fetched, merged, rendered, written
\* and validated after the first, and the index is written.
C8_Witness ==
    /\ pc = "done"
    /\ Len(trace) > 0
    /\ trace[Len(trace)][2] = "index"
    /\ \E k \in 1..Len(trace) : trace[k] = <<2, "fetch_repo_info">>
    /\ \E k \in 1..Len(trace) : trace[k] = <<1, "fetch_plugin_json">>

(***************************************************************************)
(* validate_generated_markdown on its own: one call, on a file holding a   *)
(* document of Documents.                                                  *)
(***************************************************************************)
Documents ==
    { Join("\n", <<head, badge, installation, links, tail>>) :
        head \in {"---", "--", " ---", "title: alpha"},
        badge \in {"![Version](https://img.shields.io/badge/version-1.0-blue)",
                   "![version](1.0)", "Version 1.0"},
        installation \in {"## Installation", "## Install", "##Installation"},
        links \in {"## Links", "## Link", "### Links and more", "## links"},
        tail \in {"---", ""} }

InitValidate ==
    /\ plugin = EntryAlpha
    /\ plugin_content \in Documents
    /\ files = [path \in {PluginFile(EntryAlpha)} |-> plugin_content]
    /\ writes = <<PluginFile(EntryAlpha)>>
    /\ marketplace_file = [state |-> "ok", data |-> [plugins |-> <<EntryAlpha>>]]
    /\ pc = "validate"
    /\ idx = 1
    /\ cand = 1
    /\ calls = <<>>
    /\ plugin_json = NONE
    /\ repo_info = NONE
    /\ merged = EntryAlpha
    /\ errors = <<>>
    /\ processed_plugins = <<EntryAlpha>>
    /\ validation_errors = <<>>
    /\ trace = <<>>
    /\ exit_code = -1

SpecValidate == InitValidate /\ [][Validate]_vars

(***************************************************************************)
(* generate_plugin_page on its own: one call, on a record of PageRecords.  *)
(***************************************************************************)
NameOpts ==
    { {}, {<<"name", PyStr("alpha")>>}, {<<"name", PyStr("chrome-devtools")>>},
      {<<"name", PyStr("Chrome Helper")>>}, {<<"name", PyStr("browser-kit")>>},
      {<<"name", PyStr("BROWSER")>>} }

PageDescriptionOpts ==
    { {}, {<<"description", PyStr("F5 API tools")>>},
      {<<"description", PyStr("Automates the browser")>>},
      {<<"description", PyStr("Drives Chrome")>>},
      {<<"description", PyStr("BROWSER tests")>>} }

ExtraOpts ==
    { {},
      { <<"version", PyStr("1.0")>>, <<"author", PyStr("A")>>,
        <<"tags", PyList(<<"waf", "api">>)>>, <<"keywords", PyList(<<"api">>)>>,
        <<"source", PyDict([repo |-> PyStr("o/alpha")])>> },
      { <<"commands", PyList(<<"/scan">>)>>, <<"skills", PyStr("./skills")>>,
        <<"author", PyDict([name |-> PyStr("A"), url |-> PyStr("https://a.example")])>>,
        <<"source", PyStr("./local")>>, <<"category", PyStr("security")>> },
      { <<"commands", PyStr("./commands")>>,
        <<"author", PyDict([email |-> PyStr("a@a.example")])>> } }

PageRecords ==
    { MkDict(n \cup d \cup x) : n \in NameOpts, d \in PageDescriptionOpts, x \in ExtraOpts }

InitPage ==
    /\ merged \in PageRecords
    /\ plugin = merged
    /\ marketplace_file = [state |-> "ok", data |-> [plugins |-> <<plugin>>]]
    /\ processed_plugins = <<merged>>
    /\ pc = "render"
    /\ idx = 1
    /\ cand = 1
    /\ calls = <<>>
    /\ plugin_json = NONE
    /\ repo_info = NONE
    /\ plugin_content = ""
    /\ errors = <<>>
    /\ validation_errors = <<>>
    /\ files = EmptyDict
    /\ writes = <<>>
    /\ trace = <<>>
    /\ exit_code = -1

SpecPage == InitPage /\ [][Render]_vars

(***************************************************************************)
(* The rest of a run from the render step of its only entry: the page of a *)
(* record of PageRecords is rendered, written and validated, and the run   *)
(* ends with the index page.                                               *)
(***************************************************************************)
NextPageRun == Render \/ Write \/ Validate \/ GenerateIndex

SpecPageRun == InitPage /\ [][NextPageRun]_vars

(***************************************************************************)
(* C9                                                                      *)
(***************************************************************************)
C9_Occurs(text, sub) ==
    \E i \in 1..(Len(text) - Len(sub) + 1) : SubSeq(text, i, i + Len(sub) - 1) = sub

C9_Content == files["docs/plugins/alpha.md"]

C9_NoInstallation == ~C9_Occurs(C9_Content, "## Installation")
C9_NoLinks == ~C9_Occurs(C9_Content, "## Links")
C9_NoBadge == ~C9_Occurs(C9_Content, "![Version]")
C9_NoFrontmatter == ~(Len(C9_Content) >= 3 /\ SubSeq(C9_Content, 1, 3) = "---")

C9_Failed ==
    (IF C9_NoInstallation THEN 1 ELSE 0) + (IF C9_NoLinks THEN 1 ELSE 0)
    + (IF C9_NoBadge THEN 1 ELSE 0) + (IF C9_NoFrontmatter THEN 1 ELSE 0)

C9_Warned(text) == \E i \in 1..Len(errors) : errors[i] = text

\* C9: validate_generated_markdown evaluates its four checks independently and
\* returns exactly one warning per failed check: the number of warnings is the
\* number of failed checks, each failed check has its own warning, a document
\* failing only the "## Links" check yields exactly one warning, which
\* mentions Links, and a document passing all four yields the empty list.
C9_OneWarningPerFailedCheck ==
    pc = "loop" =>
      /\ Len(errors) = C9_Failed
      /\ C9_NoInstallation <=> C9_Warned("Missing required section: ## Installation")
      /\ C9_NoLinks <=> C9_Warned("Missing required section: ## Links")
      /\ C9_NoBadge <=> C9_Warned("Missing version badge")
      /\ C9_NoFrontmatter <=> C9_Warned("Missing YAML frontmatter")
      /\ (C9_NoLinks /\ C9_Failed = 1) =>
           Len(errors) = 1 /\ C9_Occurs(errors[1], "Links")
      /\ C9_Failed = 0 => errors = <<>>

\* C9 witness: a document that fails the Links check and the frontmatter
\* check, and gets the two warnings.
C9_Witness ==
    /\ pc = "loop"
    /\ C9_NoLinks
    /\ C9_NoFrontmatter
    /\ ~C9_NoInstallation
    /\ ~C9_NoBadge
    /\ errors = <<"Missing required section: ## Links", "Missing YAML frontmatter">>

(***************************************************************************)
(* C10                                                                     *)
(***************************************************************************)
C10_Name == IF "name" \in DOMAIN merged THEN merged["name"].val ELSE "Unknown Plugin"

C10_Description ==
    IF "description" \in DOMAIN merged THEN merged["description"].val
    ELSE "No description available."

C10_Mentions(text, word) == C9_Occurs(Lower(text), word)

C10_FixedBullet ==
    C9_Occurs(plugin_content, "## Requirements\n\n- Claude Code installed and configured\n")

C10_ChromeBullet ==
    C9_Occurs(plugin_content,
              "- Claude Code installed and configured\n- Claude in Chrome browser extension\n")

C10_NoChromeBullet == ~C9_Occurs(plugin_content, "- Claude in Chrome browser extension")

\* C10 (as amended): the Requirements section of the page always has the
\* fixed bullet, and has the second (Chrome extension) bullet exactly when the
\* lower-cased plugin name contains "chrome" or the lower-cased description
\* contains "browser"; "browser" in the name or "chrome" in the description
\* does not add it.
C10_RequirementsBullets ==
    pc = "write" =>
      /\ C10_FixedBullet
      /\ IF C10_Mentions(C10_Name, "chrome") \/ C10_Mentions(C10_Description, "browser")
         THEN C10_ChromeBullet
         ELSE C10_NoChromeBullet

\* C10 witness: an upper-case "BROWSER" in the description adds the bullet.
C10_Witness ==
    /\ pc = "write"
    /\ C10_Name = "alpha"
    /\ C10_Description = "BROWSER tests"
    /\ C10_ChromeBullet

\* C10 as stated: any of name/chrome, name/browser, description/chrome,
\* description/browser adds the second bullet.
C10_AnyOfFourCombinations ==
    pc = "write" =>
      /\ C10_FixedBullet
      /\ IF \/ C10_Mentions(C10_Name, "chrome")
            \/ C10_Mentions(C10_Name, "browser")
            \/ C10_Mentions(C10_Description, "chrome")
            \/ C10_Mentions(C10_Description, "browser")
         THEN C10_ChromeBullet
         ELSE C10_NoChromeBullet

(***************************************************************************)
(* C11                                                                     *)
(***************************************************************************)
C11_StartsWithDelimiter(text) == Len(text) >= 3 /\ SubSeq(text, 1, 3) = "---"

C11_PassesAllChecks(text) ==
    /\ C11_StartsWithDelimiter(text)
    /\ C9_Occurs(text, "![Version]")
    /\ C9_Occurs(text, "## Installation")
    /\ C9_Occurs(text, "## Links")

C11_Emitted(section) == C9_Occurs(plugin_content, section)

\* C11: the page generate_plugin_page produces for a record starts with "---"
\* and contains "![Version]", "## Installation" and "## Links", whichever of
\* the optional sections it has; the file validated holds that page, the
\* validator returns no warning for it, and the list of validation warnings
\* is empty in every state of the run, the last one included.
C11_PagesPassValidation ==
    /\ pc \in {"write", "validate"} => C11_PassesAllChecks(plugin_content)
    /\ pc = "validate" => files[PluginFile(plugin)] = plugin_content
    /\ pc \in {"loop", "done"} => errors = <<>>
    /\ validation_errors = <<>>

\* A run has ended after validating a page with the Components and Available
\* Commands sections and without the Tags section.
C11_Witness ==
    /\ pc = "done"
    /\ \E k \in 1..Len(trace) : trace[k] = <<1, "validate">>
    /\ C11_Emitted("## Components")
    /\ C11_Emitted("## Available Commands")
    /\ ~C11_Emitted("## Tags")
    /\ validation_errors = <<>>

====
